---- MODULE Spec2Model ----
(***************************************************************************)
(* A model of package okta (src/okta/okta.go): primary authentication,     *)
(* second-factor verification (one-time code and push with its poll loop), *)
(* the shared transport helper makeRequest, and the SAML assertion         *)
(* exchange with its HTML extractor.                                       *)
(*                                                                         *)
(* One call of one exported function is modelled from entry to return.     *)
(* The identity provider is the environment: every HTTP exchange draws its *)
(* outcome (connection error, HTTP status, body read result, body) from a  *)
(* small set.                                                              *)
(***************************************************************************)
EXTENDS Integers, Sequences, FiniteSets, TLC

\* Bound on the number of poll requests of one VerifyPush call (the code has none).
MaxPolls == 8

\* Bound on the number of tokens of an HTML document.
MaxTokens == 3

(***************************************************************************)
(* Status codes, okta.go:61-67.                                            *)
(***************************************************************************)
YAK_STATUS_OK == 0

YAK_STATUS_UNAUTHORISED == 1

YAK_STATUS_DATA_ERROR == 2

YAK_STATUS_NET_ERROR == 3

YAK_STATUS_BAD_RESPONSE == 4

InitialErrorsRemaining_OneLess == 6 - 1

\* errorsRemaining := 6, okta.go:141.
InitialErrorsRemaining == 6

(***************************************************************************)
(* Errors.  A Go error value is modelled by its message, split into the    *)
(* fixed text and the part that is concatenated to it; Nil is the nil      *)
(* error.                                                                  *)
(***************************************************************************)
Nil == [msg |-> "nil", arg |-> ""]

Error(msg, arg) == [msg |-> msg, arg |-> arg]

(***************************************************************************)
(* Response bodies.  A body is either not JSON at all (json = FALSE) or a  *)
(* JSON object, given by the keys the decoders of this package look at.    *)
(* A string key that is absent and one that is "" decode alike, since      *)
(* every struct decoded into starts with empty strings; for the integer    *)
(* key YakStatusCode, Absent says the object does not carry it.            *)
(***************************************************************************)
Absent == -1

(***************************************************************************)
(* Addresses.  An address string is modelled by the parts net/url splits   *)
(* it into; valid = FALSE is a string url.Parse rejects (such as ":").     *)
(* query is the list of the (key, value) pairs of the query string.        *)
(***************************************************************************)
Href(scheme, host, path, query) ==
    [valid |-> TRUE, scheme |-> scheme, host |-> host, path |-> path, query |-> query]

EmptyHref == Href("", "", "", <<>>)

BadHref == [valid |-> FALSE, scheme |-> "", host |-> "", path |-> "", query |-> <<>>]

OktaHref == Href("https", "okta.example", "", <<>>)

VerifyHref == Href("https", "okta.example", "/api/v1/authn/factors/1/verify", <<>>)

PollHref == Href("https", "okta.example", "/api/v1/authn/factors/1/poll", <<>>)

\* url.URL.ResolveReference for references with an empty or absolute path
\* (RFC 3986 section 5.2).
ResolveReference(u, ref) ==
    IF ref.scheme # "" THEN ref
    ELSE IF ref.host # "" THEN [ref EXCEPT !.scheme = u.scheme]
    ELSE IF ref.path = ""
        THEN [u EXCEPT !.query = IF ref.query # <<>> THEN ref.query ELSE @]
    ELSE [u EXCEPT !.path = ref.path, !.query = ref.query]

Statuses == {"", "MFA_CHALLENGE", "SUCCESS", "REJECTED"}

FactorResults == {"", "WAITING", "REJECTED", "TIMEOUT"}

NotJson ==
    [json |-> FALSE, status |-> "", sessionToken |-> "", factorResult |-> "",
     YakStatusCode |-> Absent, next |-> EmptyHref]

JsonBodies ==
    [json : {TRUE}, status : Statuses, sessionToken : {"", "tok"},
     factorResult : FactorResults,
     YakStatusCode : {Absent, YAK_STATUS_NET_ERROR},
     next : {EmptyHref, PollHref}]

Bodies == JsonBodies \cup {NotJson}

\* Bodies of responses whose status makes makeRequest return before reading.
UnreadBodies ==
    {NotJson,
     [json |-> TRUE, status |-> "SUCCESS", sessionToken |-> "tok", factorResult |-> "",
      YakStatusCode |-> Absent, next |-> PollHref]}

\* []byte{}: the empty body makeRequest returns on its early error returns.
EmptyBytes == NotJson

(***************************************************************************)
(* resp.Status of net/http: the status code followed by its reason phrase. *)
(***************************************************************************)
HttpStatuses == {200, 204, 300, 401, 403, 404, 500}

StatusText(code) ==
    CASE code = 200 -> "200 OK"
      [] code = 204 -> "204 No Content"
      [] code = 300 -> "300 Multiple Choices"
      [] code = 302 -> "302 Found"
      [] code = 401 -> "401 Unauthorized"
      [] code = 403 -> "403 Forbidden"
      [] code = 404 -> "404 Not Found"
      [] code = 500 -> "500 Internal Server Error"

(***************************************************************************)
(* What http.Post can come back with.  conn = TRUE is a non-nil error of   *)
(* http.Post (no response); otherwise status is resp.StatusCode, readOk    *)
(* says whether ioutil.ReadAll(resp.Body) succeeds and body is what it     *)
(* returns (on a read failure, the bytes read so far, which are not a      *)
(* complete JSON text).                                                    *)
(***************************************************************************)
ConnError == [conn |-> TRUE, status |-> 0, readOk |-> FALSE, body |-> NotJson]

\* The one error of http.Post that comes with a response: a redirect that
\* the client's CheckRedirect refuses.
RedirectError == [conn |-> TRUE, status |-> 302, readOk |-> FALSE, body |-> NotJson]

Outcomes ==
    {ConnError, RedirectError}
    \cup [conn : {FALSE}, status : {s \in HttpStatuses : s >= 300}, readOk : {TRUE},
          body : UnreadBodies]
    \cup [conn : {FALSE}, status : {s \in HttpStatuses : s < 300}, readOk : {TRUE},
          body : Bodies]
    \cup [conn : {FALSE}, status : {s \in HttpStatuses : s < 300}, readOk : {FALSE},
          body : {NotJson}]

\* http.Post, okta.go:236: a URL without a scheme (the empty string among them)
\* fails before anything is sent (unsupported protocol scheme).
OutcomesFor(url) == IF ~url.valid \/ url.scheme = "" THEN {ConnError} ELSE Outcomes

makeRequest_Only401(o) ==
    IF o.conn
        THEN [body |-> EmptyBytes, yak |-> YAK_STATUS_NET_ERROR,
              err |-> Error("http.Post", "")]
    ELSE IF o.status = 401
        THEN [body |-> EmptyBytes, yak |-> YAK_STATUS_UNAUTHORISED,
              err |-> Error("Unauthorised (", StatusText(o.status))]
    ELSE IF o.status >= 300
        THEN [body |-> EmptyBytes, yak |-> YAK_STATUS_NET_ERROR,
              err |-> Error("Network error (", StatusText(o.status))]
    ELSE IF ~o.readOk
        THEN [body |-> o.body, yak |-> YAK_STATUS_BAD_RESPONSE,
              err |-> Error("ioutil.ReadAll", "")]
    ELSE [body |-> o.body, yak |-> YAK_STATUS_OK, err |-> Nil]

(***************************************************************************)
(* makeRequest, okta.go:235-255: the result of the helper for one outcome  *)
(* of http.Post, as the triple (body, status code, error).                 *)
(***************************************************************************)
makeRequest(o) ==
    IF o.conn
        THEN [body |-> EmptyBytes, yak |-> YAK_STATUS_NET_ERROR,
              err |-> Error("http.Post", "")]
    ELSE IF o.status = 401 \/ o.status = 403
        THEN [body |-> EmptyBytes, yak |-> YAK_STATUS_UNAUTHORISED,
              err |-> Error("Unauthorised (", StatusText(o.status))]
    ELSE IF o.status >= 300
        THEN [body |-> EmptyBytes, yak |-> YAK_STATUS_NET_ERROR,
              err |-> Error("Network error (", StatusText(o.status))]
    ELSE IF ~o.readOk
        THEN [body |-> o.body, yak |-> YAK_STATUS_BAD_RESPONSE,
              err |-> Error("ioutil.ReadAll", "")]
    ELSE [body |-> o.body, yak |-> YAK_STATUS_OK, err |-> Nil]

(***************************************************************************)
(* OktaAuthResponse, okta.go:69-76, with the fields the operations below   *)
(* read or set.  YakStatusCode is an exported field without a json tag, so *)
(* encoding/json decodes the key "YakStatusCode" into it.                  *)
(***************************************************************************)
OktaAuthResponse(yak) ==
    [StateToken |-> "", SessionToken |-> "", Status |-> "", YakStatusCode |-> yak]

\* json.Unmarshal(body, &authResponse), okta.go:101, 120, 157: a body that is
\* not JSON leaves the struct as it is (the error is dropped); an object sets
\* the fields whose keys it carries.
UnmarshalAuth(body, v) ==
    IF ~body.json THEN v
    ELSE [v EXCEPT !.SessionToken = body.sessionToken,
                   !.Status = body.status,
                   !.YakStatusCode =
                       IF body.YakStatusCode = Absent THEN @ ELSE body.YakStatusCode]

\* json.Unmarshal(body, &pushRequestResponse), okta.go:138-139, into
\* PushRequestResponse, okta.go:46-49.
UnmarshalPush(body) ==
    IF ~body.json THEN [PollLink |-> EmptyHref, FactorResult |-> ""]
    ELSE [PollLink |-> body.next, FactorResult |-> body.factorResult]

(***************************************************************************)
(* HTML documents as html.Tokenizer hands them out: a finite list of       *)
(* tokens, after which every call of Next yields an ErrorToken (io.EOF; a  *)
(* bytes.Buffer has no other read error).                                  *)
(***************************************************************************)
Attr(key, val) == [Key |-> key, Val |-> val]

Token(type, data, attr) == [Type |-> type, Data |-> data, Attr |-> attr]

ErrorToken == Token("ErrorToken", "", <<>>)

Tokens ==
    { Token("TextToken", "text", <<>>),
      Token("EndTagToken", "input",
            <<Attr("name", "SAMLResponse"), Attr("value", "QUJD")>>),
      Token("StartTagToken", "form",
            <<Attr("name", "SAMLResponse"), Attr("value", "QUJD")>>),
      Token("StartTagToken", "input",
            <<Attr("type", "hidden"), Attr("name", "SAMLResponse"), Attr("value", "QUJD")>>),
      Token("SelfClosingTagToken", "input",
            <<Attr("value", "QQ=="), Attr("name", "SAMLResponse")>>),
      Token("StartTagToken", "input",
            <<Attr("name", "RelayState"), Attr("value", "QUJD")>>),
      Token("SelfClosingTagToken", "input", <<Attr("name", "SAMLResponse")>>),
      Token("StartTagToken", "input",
            <<Attr("name", "SAMLResponse"), Attr("value", "%")>>),
      Token("StartTagToken", "input",
            <<Attr("name", "SAMLResponse"), Attr("name", "RelayState"),
              Attr("value", "QQ==")>>) }

RECURSIVE DocsOfLen(_)
DocsOfLen(n) ==
    IF n = 0 THEN {<<>>}
    ELSE {Append(d, t) : d \in DocsOfLen(n - 1), t \in Tokens}

Docs == UNION {DocsOfLen(n) : n \in 0..MaxTokens}

\* tokeniser.Next(); tokeniser.Token(), okta.go:263-264: the n-th token.
NextToken(d, n) == IF n <= Len(d) THEN d[n] ELSE ErrorToken

\* The attribute loop, okta.go:271-282: every name and value attribute
\* overwrites what an earlier one set.
RECURSIVE ScanAttr(_, _, _)
ScanAttr(attr, inputName, inputValue) ==
    IF attr = <<>> THEN [inputName |-> inputName, inputValue |-> inputValue]
    ELSE LET a == Head(attr)
         IN  ScanAttr(Tail(attr),
                      IF a.Key = "name" THEN a.Val ELSE inputName,
                      IF a.Key = "value" THEN a.Val ELSE inputValue)

IsInputTag_AnyTag(token) ==
    token.Type = "SelfClosingTagToken" \/ token.Type = "StartTagToken"

\* The test of okta.go:270 on the token's type and tag name.
IsInputTag(token) ==
    /\ token.Type = "SelfClosingTagToken" \/ token.Type = "StartTagToken"
    /\ token.Data = "input"

\* base64.StdEncoding.DecodeString, okta.go:226, on the attribute values above.
DecodeString(data) ==
    CASE data = "" -> [ok |-> TRUE, bytes |-> ""]
      [] data = "QUJD" -> [ok |-> TRUE, bytes |-> "ABC"]
      [] data = "QQ==" -> [ok |-> TRUE, bytes |-> "A"]
      [] OTHER -> [ok |-> FALSE, bytes |-> ""]

(***************************************************************************)
(* What client.Get, okta.go:206, can come back with.                       *)
(***************************************************************************)
GetConnError == [conn |-> TRUE, status |-> 0, readOk |-> FALSE, doc |-> <<>>]

GetOutcomes ==
    {GetConnError}
    \cup [conn : {FALSE}, status : {200, 302, 404}, readOk : BOOLEAN, doc : Docs]

GetOutcomesFor(url) == IF url.scheme = "" THEN {GetConnError} ELSE GetOutcomes

(***************************************************************************)
(* State.                                                                  *)
(*   op, pc           the function called and the place the call is at     *)
(*   ret, err         the OktaAuthResponse and error returned              *)
(*   saml             the string AwsSamlLogin returns                      *)
(*   pollLink         pushRequestResponse.Links.PollLink.Href              *)
(*   errorsRemaining  the local of VerifyPush                              *)
(*   doc, pos, data   the document being tokenised, the number of tokens   *)
(*                    taken from it, the local data of extractSamlPayload  *)
(* and, recording what went over the wire:                                 *)
(*   posts            number of calls of makeRequest (POST requests)       *)
(*   lastReq, lastRes outcome of the latest POST and what makeRequest      *)
(*                    returned for it                                      *)
(*   polls            number of poll requests of the VerifyPush call       *)
(*   challenges       polls answered with status MFA_CHALLENGE             *)
(*   failed           polls for which makeRequest returned an error        *)
(*   consecutive      failed polls since the latest poll that did not fail *)
(*   getUrl           the address AwsSamlLogin sent its GET to             *)
(*   args             the arguments of the call: url (oktaHref of             *)
(*                    Authenticate and AwsSamlLogin, url of VerifyTotp and *)
(*                    VerifyPush), samlHref and the session token of       *)
(*                    oktaAuthResponse                                     *)
(*   gets, lastGet    number of GET requests, outcome of the latest one    *)
(*   openBodies       response bodies obtained and not closed              *)
(*   sent             the POST requests of the call, in order: address and   *)
(*                    body of each                                         *)
(*   initiation       what the request that initiates the push came back   *)
(*                    with: whether makeRequest failed, its status code,   *)
(*                    the _links.next.href of the response body            *)
(*   slept            time.Sleep has run since the latest poll request     *)
(*   sleeps           number of calls of time.Sleep                        *)
(***************************************************************************)
VARIABLES op, pc, ret, err, saml, pollLink, errorsRemaining, doc, pos, data,
          posts, lastReq, lastRes, polls, challenges, failed, consecutive, getUrl,
          slept, sleeps, args, gets, lastGet, openBodies, sent, initiation

vars == <<op, pc, ret, err, saml, pollLink, errorsRemaining, doc, pos, data,
          posts, lastReq, lastRes, polls, challenges, failed, consecutive, getUrl,
          slept, sleeps, args, gets, lastGet, openBodies, sent, initiation>>

pushVars ==
    <<pollLink, errorsRemaining, polls, challenges, failed, consecutive, slept, sleeps,
      initiation>>

samlVars == <<saml, doc, pos, data, getUrl, gets, lastGet>>

NoArgs == [url |-> EmptyHref, samlHref |-> EmptyHref, sessionToken |-> ""]

Init ==
    /\ op = "none"
    /\ pc = "idle"
    /\ ret = OktaAuthResponse(YAK_STATUS_OK)
    /\ err = Nil
    /\ saml = ""
    /\ pollLink = EmptyHref
    /\ errorsRemaining = 0
    /\ doc = <<>>
    /\ pos = 0
    /\ data = ""
    /\ posts = 0
    /\ lastReq = ConnError
    /\ lastRes = makeRequest(ConnError)
    /\ polls = 0
    /\ challenges = 0
    /\ failed = 0
    /\ consecutive = 0
    /\ getUrl = EmptyHref
    /\ slept = FALSE
    /\ sleeps = 0
    /\ args = NoArgs
    /\ gets = 0
    /\ lastGet = [conn |-> TRUE, status |-> 0, readOk |-> FALSE]
    /\ openBodies = 0
    /\ sent = <<>>
    /\ initiation = [failed |-> TRUE, yak |-> YAK_STATUS_OK, next |-> EmptyHref]

\* The response bodies a call of makeRequest leaves open, okta.go:236-246:
\* resp.Body.Close() is deferred only after the returns for 401, 403 and the
\* other statuses >= 300.  (With a non-nil error of http.Post there is no body
\* left to close.)
BodiesLeftOpen(o) ==
    IF o.conn THEN 0
    ELSE IF o.status = 401 \/ o.status = 403 THEN 1
    ELSE IF o.status >= 300 THEN 1
    ELSE 0

\* One call of makeRequest(url, body) with outcome o of http.Post.
Post(url, body, o) ==
    /\ posts' = posts + 1
    /\ sent' = Append(sent, [url |-> url, body |-> body])
    /\ lastReq' = o
    /\ lastRes' = makeRequest(o)
    /\ openBodies' = openBodies + BodiesLeftOpen(o)

\* return authResponse, err
Return(authResponse, e) ==
    /\ ret' = authResponse
    /\ err' = e
    /\ pc' = "done"

(***************************************************************************)
(* Authenticate, okta.go:78-104.  json.Marshal of a UserData (two strings) *)
(* cannot fail, so the return of okta.go:81-83 is never taken.             *)
(***************************************************************************)
AuthnEndpoint == Href("", "", "/api/v1/authn", <<>>)

\* json.Marshal of the request structs, okta.go:20-32, 79, 107, 126: the keys
\* and values of the object.
UserDataJson == <<<<"username", "user">>, <<"password", "secret">>>>

TotpRequestJson == <<<<"stateToken", "st">>, <<"passCode", "123456">>>>

PushRequestJson == <<<<"stateToken", "st">>>>

\* OktaAuthResponse{YakStatusCode: YAK_STATUS_DATA_ERROR}, okta.go:88.
DataErrorResponse == OktaAuthResponse(YAK_STATUS_DATA_ERROR)

Authenticate(oktaHref) ==
    /\ pc = "idle"
    /\ op' = "Authenticate"
    /\ args' = [NoArgs EXCEPT !.url = oktaHref]
    /\ UNCHANGED <<pushVars, samlVars>>
    /\ IF ~oktaHref.valid
          THEN /\ Return(DataErrorResponse, Error("url.Parse", ""))
               /\ UNCHANGED <<posts, lastReq, lastRes, openBodies, sent>>
          ELSE \E o \in OutcomesFor(ResolveReference(oktaHref, AuthnEndpoint)) :
                  LET r == makeRequest(o)
                  IN  /\ Post(ResolveReference(oktaHref, AuthnEndpoint), UserDataJson, o)
                      /\ IF r.err # Nil
                            THEN Return(OktaAuthResponse(r.yak), r.err)
                            ELSE Return(UnmarshalAuth(r.body,
                                            OktaAuthResponse(YAK_STATUS_OK)), Nil)

(***************************************************************************)
(* VerifyTotp, okta.go:106-123.  json.Marshal of a TotpRequest cannot      *)
(* fail.                                                                   *)
(***************************************************************************)
VerifyTotp(url) ==
    /\ pc = "idle"
    /\ op' = "VerifyTotp"
    /\ args' = [NoArgs EXCEPT !.url = url]
    /\ UNCHANGED <<pushVars, samlVars>>
    /\ \E o \in OutcomesFor(url) :
          LET r == makeRequest(o)
          IN  /\ Post(url, TotpRequestJson, o)
              /\ IF r.err # Nil
                    THEN Return(OktaAuthResponse(r.yak), r.err)
                    ELSE Return(UnmarshalAuth(r.body, OktaAuthResponse(YAK_STATUS_OK)), Nil)

BadStatusError_NoStatus(status) == Error("Bad status from Okta API: ", "")

\* errors.New("Bad status from Okta API: " + authResponse.Status), okta.go:167.
BadStatusError(status) == Error("Bad status from Okta API: ", status)

(***************************************************************************)
(* VerifyPush, okta.go:125-142: the request that initiates the push, up to *)
(* the entry of the poll loop.  json.Marshal of a PushRequest cannot fail. *)
(***************************************************************************)
VerifyPush(url) ==
    /\ pc = "idle"
    /\ op' = "VerifyPush"
    /\ args' = [NoArgs EXCEPT !.url = url]
    /\ UNCHANGED <<samlVars, polls, challenges, failed, consecutive, slept, sleeps>>
    /\ \E o \in OutcomesFor(url) :
          LET r == makeRequest(o)
          IN  /\ Post(url, PushRequestJson, o)
              /\ initiation' = [failed |-> r.err # Nil, yak |-> r.yak,
                                 next |-> IF o.body.json THEN o.body.next ELSE EmptyHref]
              /\ IF r.err # Nil
                    THEN /\ Return(OktaAuthResponse(r.yak), r.err)
                         /\ UNCHANGED <<pollLink, errorsRemaining>>
                    ELSE /\ pollLink' = UnmarshalPush(r.body).PollLink
                         /\ errorsRemaining' = InitialErrorsRemaining
                         /\ pc' = "poll"
                         /\ UNCHANGED <<ret, err>>

PollRequest_DrainedBody(link, pushJson) == [url |-> link, body |-> <<>>]

\* makeRequest(pushRequestResponse.Links.PollLink.Href, bytes.NewBuffer(pushJson)),
\* okta.go:144: the address and the body of a poll request.
PollRequest(link, pushJson) == [url |-> link, body |-> pushJson]

Decrement_Not(n) == n

\* errorsRemaining--, okta.go:149.
Decrement(n) == n - 1

(***************************************************************************)
(* One iteration of the poll loop, okta.go:143-171, from the poll request  *)
(* to the return, the continue or the call of time.Sleep.  The history of  *)
(* the call (posts, sent, polls, challenges, failed, consecutive,          *)
(* openBodies) is recorded while counted holds; the program's own state    *)
(* (errorsRemaining, the position, the return values) changes either way.  *)
(* outcomes is what http.Post may come back with.                          *)
(***************************************************************************)
Iteration(counted, outcomes) ==
    /\ pc = "poll"
    /\ UNCHANGED <<op, args, pollLink, samlVars, sleeps, initiation>>
    /\ slept' = FALSE
    /\ \E o \in outcomes :
          LET r == makeRequest(o)
              authResponse == OktaAuthResponse(r.yak)
              decoded == UnmarshalAuth(r.body, authResponse)
              request == PollRequest(pollLink, PushRequestJson)
              Count(n) == IF counted THEN n + 1 ELSE n
          IN  /\ IF counted
                    THEN Post(request.url, request.body, o)
                    ELSE /\ lastReq' = o
                         /\ lastRes' = r
                         /\ UNCHANGED <<posts, sent, openBodies>>
              /\ polls' = Count(polls)
              /\ IF r.err # Nil
                    THEN /\ errorsRemaining' = Decrement(errorsRemaining)
                         /\ failed' = Count(failed)
                         /\ consecutive' = Count(consecutive)
                         /\ UNCHANGED challenges
                         /\ IF errorsRemaining' = 0
                               THEN Return(authResponse, r.err)
                               ELSE UNCHANGED <<pc, ret, err>>
                    ELSE /\ consecutive' = 0
                         /\ UNCHANGED <<errorsRemaining, failed>>
                         /\ IF decoded.Status # "MFA_CHALLENGE"
                               THEN /\ UNCHANGED challenges
                                    /\ IF decoded.Status = "SUCCESS"
                                          THEN Return(decoded, Nil)
                                          ELSE Return(
                                                 [decoded EXCEPT !.YakStatusCode =
                                                                   YAK_STATUS_BAD_RESPONSE],
                                                 BadStatusError(decoded.Status))
                               ELSE /\ challenges' = Count(challenges)
                                    /\ pc' = "sleep"
                                    /\ UNCHANGED <<ret, err>>

\* An iteration of the loop among the first MaxPolls of the call.
Poll ==
    /\ polls < MaxPolls
    /\ Iteration(TRUE, OutcomesFor(pollLink))

\* The outcomes of a poll request that differ in what the loop branches on,
\* okta.go:148, 151, 159, 160: the error of makeRequest and the status of the
\* decoded body.  The other keys of the body are left out.
PollAnswersFor(url) ==
    {o \in OutcomesFor(url) :
        o.body.json => /\ o.body.sessionToken = ""
                       /\ o.body.factorResult = ""
                       /\ o.body.YakStatusCode = Absent
                       /\ o.body.next = EmptyHref}

\* An iteration of the loop among the first MaxPolls of the call, answered by
\* one of PollAnswersFor.
PollAnswer ==
    /\ polls < MaxPolls
    /\ Iteration(TRUE, PollAnswersFor(pollLink))

\* An iteration of the loop after the first MaxPolls: the loop has no bound
\* of its own, the history stops counting.
PollBeyond ==
    /\ polls = MaxPolls
    /\ Iteration(FALSE, PollAnswersFor(pollLink))

\* time.Sleep(5 * time.Second), okta.go:172, and back to the top of the loop.
Sleep ==
    /\ pc = "sleep"
    /\ pc' = "poll"
    /\ slept' = TRUE
    /\ sleeps' = IF sleeps < MaxPolls THEN sleeps + 1 ELSE sleeps
    /\ UNCHANGED <<op, ret, err, pollLink, errorsRemaining, polls, challenges, failed,
                   consecutive, samlVars, posts, lastReq, lastRes, args, openBodies,
                   sent, initiation>>

(***************************************************************************)
(* AwsSamlLogin, okta.go:176-218: from entry to the call of                *)
(* extractSamlPayload.  cookiejar.New(nil) cannot fail.                    *)
(***************************************************************************)
SamlHrefs ==
    {Href("", "", "/app/saml", <<>>),
     Href("", "", "/app/saml", <<<<"fromURI", "x">>>>),
     Href("https", "sso.example", "/app/saml", <<>>),
     EmptyHref, BadHref}

ReturnSaml(s, e) ==
    /\ saml' = s
    /\ err' = e
    /\ pc' = "done"

SessionTokens == {"", "tok", "a&b"}

\* url.QueryEscape, as url.Values.Encode applies it to the values above.
QueryEscape(v) == IF v = "a&b" THEN "a%26b" ELSE v

\* query.Encode(), okta.go:191-194, for the one value added under onetimetoken.
EncodeOneTimeToken(sessionToken) == <<<<"onetimetoken", QueryEscape(sessionToken)>>>>

SetRawQuery_Append(u, rawQuery) == [u EXCEPT !.query = @ \o rawQuery]

\* samlUrl.RawQuery = ..., okta.go:194.
SetRawQuery(u, rawQuery) == [u EXCEPT !.query = rawQuery]

SamlStatusFailed_From400(status) == status >= 400

\* resp.StatusCode >= 300, okta.go:210.
SamlStatusFailed(status) == status >= 300

AwsSamlLogin(oktaHref, samlHref, oktaAuthResponse) ==
    /\ pc = "idle"
    /\ op' = "AwsSamlLogin"
    /\ args' = [url |-> oktaHref, samlHref |-> samlHref,
                sessionToken |-> oktaAuthResponse.SessionToken]
    /\ UNCHANGED <<ret, pushVars, posts, lastReq, lastRes, pos, data, sent>>
    /\ IF ~oktaHref.valid \/ ~samlHref.valid
          THEN /\ ReturnSaml("", Error("url.Parse", ""))
               /\ UNCHANGED <<doc, getUrl, gets, lastGet, openBodies>>
          ELSE LET samlUrl ==
                     SetRawQuery(ResolveReference(oktaHref, samlHref),
                                 EncodeOneTimeToken(oktaAuthResponse.SessionToken))
               IN  \E g \in GetOutcomesFor(samlUrl) :
                      /\ getUrl' = samlUrl
                      /\ gets' = gets + 1
                      /\ lastGet' = [conn |-> g.conn, status |-> g.status,
                                     readOk |-> g.readOk]
                      \* resp.Body is never closed in AwsSamlLogin.
                      /\ openBodies' = openBodies + (IF g.conn THEN 0 ELSE 1)
                      /\ IF g.conn
                            THEN /\ ReturnSaml("", Error("client.Get", ""))
                                 /\ UNCHANGED doc
                         ELSE IF SamlStatusFailed(g.status)
                            THEN /\ ReturnSaml("", Error("Could not get SAML payload",
                                                         StatusText(g.status)))
                                 /\ UNCHANGED doc
                         ELSE IF ~g.readOk
                            THEN /\ ReturnSaml("", Error("ioutil.ReadAll", ""))
                                 /\ UNCHANGED doc
                         ELSE /\ doc' = g.doc
                              /\ pc' = "extract"
                              /\ UNCHANGED <<saml, err>>

(***************************************************************************)
(* extractSamlPayload, okta.go:257-292: one iteration of its loop; on the  *)
(* return, the rest of AwsSamlLogin, okta.go:220-232.                      *)
(***************************************************************************)
extractSamlPayload ==
    /\ pc = "extract"
    /\ UNCHANGED <<op, args, ret, pushVars, posts, lastReq, lastRes, doc, getUrl, gets,
                   lastGet, openBodies, sent>>
    /\ pos' = pos + 1
    /\ LET token == NextToken(doc, pos + 1)
           scanned == ScanAttr(token.Attr, "", "")
       IN  IF token.Type = "ErrorToken"
              THEN /\ ReturnSaml("", Error("No SAML payload found in response from Okta", ""))
                   /\ UNCHANGED data
           ELSE IF IsInputTag(token) /\ scanned.inputName = "SAMLResponse"
              THEN /\ data' = scanned.inputValue
                   /\ LET decoded == DecodeString(scanned.inputValue)
                      IN  IF decoded.ok
                             THEN ReturnSaml(decoded.bytes, Nil)
                             ELSE ReturnSaml("", Error("base64.DecodeString", ""))
           ELSE UNCHANGED <<pc, saml, err, data>>

Next ==
    \/ \E oktaHref \in {OktaHref, EmptyHref, BadHref} : Authenticate(oktaHref)
    \/ \E url \in {VerifyHref, EmptyHref, BadHref} : VerifyTotp(url)
    \/ \E url \in {VerifyHref, EmptyHref, BadHref} : VerifyPush(url)
    \/ Poll
    \/ Sleep
    \/ \E oktaHref \in {OktaHref, BadHref}, samlHref \in SamlHrefs,
          sessionToken \in SessionTokens :
          AwsSamlLogin(oktaHref, samlHref,
                       [OktaAuthResponse(YAK_STATUS_OK) EXCEPT !.SessionToken = sessionToken])
    \/ extractSamlPayload

Spec == Init /\ [][Next]_vars

(***************************************************************************)
(* One call of VerifyPush with a poll loop of any length.  The loop is     *)
(* sequential code: as long as http.Post and time.Sleep return, the next   *)
(* step of the loop is taken, which is weak fairness of each step.         *)
(***************************************************************************)
PushNext ==
    \/ \E url \in {VerifyHref, EmptyHref, BadHref} : VerifyPush(url)
    \/ PollAnswer
    \/ PollBeyond
    \/ Sleep

FairSpec ==
    /\ Init
    /\ [][PushNext]_vars
    /\ WF_vars(PollAnswer)
    /\ WF_vars(PollBeyond)
    /\ WF_vars(Sleep)

(***************************************************************************)
(* Properties.                                                             *)
(***************************************************************************)

\* The latest POST was a poll request of VerifyPush.
PollAnswered == op = "VerifyPush" /\ polls > 0

\* The latest poll request was received without error (makeRequest returned a
\* nil error), so its body was decoded and its status inspected.
PollReceived == PollAnswered /\ lastRes.err = Nil

\* VerifyPush returned from the branch of the exhausted error budget.
BudgetExhausted == PollAnswered /\ pc = "done" /\ lastRes.err # Nil

\* C1: when no poll failed and the polls were answered MFA_CHALLENGE N times
\* and then SUCCESS, VerifyPush has issued N+1 poll requests and returns the
\* session of the last poll with a nil error and status code ok.
C1_PollsUntilSuccess ==
    (PollReceived /\ pc = "done" /\ failed = 0 /\ lastReq.body.status = "SUCCESS")
        => /\ polls = challenges + 1
           /\ err = Nil
           /\ ret.YakStatusCode = YAK_STATUS_OK
           /\ ret.Status = "SUCCESS"
           /\ ret.SessionToken = lastReq.body.sessionToken

\* C2: a poll response received without error whose status is neither
\* MFA_CHALLENGE nor SUCCESS ends VerifyPush at once: it has returned, with
\* status code YAK_STATUS_BAD_RESPONSE and a non-nil error that carries the
\* status string of the response.
C2_BadStatusIsTerminal ==
    (PollReceived /\ lastReq.body.status \notin {"MFA_CHALLENGE", "SUCCESS"})
        => /\ pc = "done"
           /\ ret.YakStatusCode = YAK_STATUS_BAD_RESPONSE
           /\ err # Nil
           /\ err.msg = "Bad status from Okta API: "
           /\ err.arg = lastReq.body.status

\* C2 witness: the third poll is answered REJECTED after two MFA_CHALLENGE
\* answers, and VerifyPush has returned.
C2_Witness ==
    /\ PollReceived
    /\ pc = "done"
    /\ polls = 3
    /\ challenges = 2
    /\ lastReq.body.status = "REJECTED"
    /\ err.arg = "REJECTED"

\* C3: a poll response whose factorResult is REJECTED or TIMEOUT is a
\* terminal failure: VerifyPush has returned with a non-nil error, whatever
\* the status of the response.
C3_FactorResultIsTerminal ==
    (PollReceived /\ lastReq.body.factorResult \in {"REJECTED", "TIMEOUT"})
        => pc = "done" /\ err # Nil

\* C4: when every poll so far has failed, VerifyPush is still polling up to
\* the 5th and has returned a non-nil error at the 6th, so that there is no
\* 7th; and when the first 5 polls failed and the 6th is answered SUCCESS,
\* it returns that response with a nil error.
C4_SixFailuresAbort ==
    /\ (PollAnswered /\ failed = polls /\ polls < 6) => pc = "poll"
    /\ (PollAnswered /\ failed = polls /\ polls >= 6)
           => polls = 6 /\ pc = "done" /\ err # Nil
    /\ (PollReceived /\ polls = 6 /\ failed = 5 /\ challenges = 0
            /\ lastReq.body.status = "SUCCESS")
           => pc = "done" /\ err = Nil /\ ret.Status = "SUCCESS"

\* C4 witness: five failed polls, then a SUCCESS response, and VerifyPush has
\* returned it.
C4_Witness ==
    /\ PollReceived
    /\ pc = "done"
    /\ polls = 6
    /\ failed = 5
    /\ lastReq.body.status = "SUCCESS"
    /\ err = Nil

\* C5: whenever VerifyPush returns because the error budget is exhausted, the
\* 6 most recent poll requests all failed.
C5_AbortOnlyAfterSixConsecutive ==
    BudgetExhausted => consecutive >= 6

\* C6: a request that makeRequest classified unauthorized or
\* unexpected-response-shape is never followed by another request.
C6_NoRetryOfUnauthorisedOrBadResponse ==
    [][(posts > 0 /\ lastRes.yak \in {YAK_STATUS_UNAUTHORISED, YAK_STATUS_BAD_RESPONSE})
          => posts' = posts]_vars

\* C7: whenever VerifyPush returns because its error budget reached zero, the
\* status code it returns is YAK_STATUS_NET_ERROR.
C7_AbortIsNetError ==
    BudgetExhausted => ret.YakStatusCode = YAK_STATUS_NET_ERROR

\* C8: makeRequest classifies the outcome of a POST in this order: an error of
\* http.Post is network-failure; HTTP 401 or 403 is unauthorized; another
\* status >= 300 is network-failure; a status < 300 whose body cannot be read
\* is unexpected-response-shape; anything else is ok and returns the body as
\* read.  The error is nil exactly when the status code is ok.
C8_MakeRequestClassification ==
    posts > 0 =>
        LET o == lastReq
            r == lastRes
            answered == ~o.conn
        IN  /\ o.conn => r.yak = YAK_STATUS_NET_ERROR
            /\ (answered /\ o.status \in {401, 403}) => r.yak = YAK_STATUS_UNAUTHORISED
            /\ (answered /\ o.status \notin {401, 403} /\ o.status >= 300)
                   => r.yak = YAK_STATUS_NET_ERROR
            /\ (answered /\ o.status < 300 /\ ~o.readOk)
                   => r.yak = YAK_STATUS_BAD_RESPONSE
            /\ (answered /\ o.status < 300 /\ o.readOk)
                   => r.yak = YAK_STATUS_OK /\ r.body = o.body
            /\ r.err = Nil <=> r.yak = YAK_STATUS_OK

\* C8 witness: a POST answered 403 with a body that would otherwise decode.
C8_Witness ==
    /\ posts > 0
    /\ ~lastReq.conn
    /\ lastReq.status = 403
    /\ lastReq.body.json
    /\ lastRes.yak = YAK_STATUS_UNAUTHORISED

\* C9: the status code Authenticate returns is the classification of the
\* transport outcome, whatever the response body holds.
C9_AuthenticateStatusIsTransportOutcome ==
    (op = "Authenticate" /\ pc = "done" /\ posts > 0)
        => ret.YakStatusCode = lastRes.yak

\* The attribute of a tag under a key: the value of the last attribute with
\* that key, "" when the tag has none.
AttrOf(token, key) ==
    LET at == {i \in 1..Len(token.Attr) : token.Attr[i].Key = key}
    IN  IF at = {} THEN ""
        ELSE token.Attr[CHOOSE i \in at : \A j \in at : j <= i].Val

\* The places of a document that hold a start or self-closing input tag whose
\* name attribute is SAMLResponse.
PayloadInputs(d) ==
    {i \in 1..Len(d) :
        /\ d[i].Type \in {"StartTagToken", "SelfClosingTagToken"}
        /\ d[i].Data = "input"
        /\ AttrOf(d[i], "name") = "SAMLResponse"}

First(S) == CHOOSE i \in S : \A j \in S : i <= j

NoPayloadError == Error("No SAML payload found in response from Okta", "")

\* C10: the extractor returns the value attribute of the first start or
\* self-closing input tag named SAMLResponse and takes no token after it; it
\* fails with the no-payload error exactly when the document ends before any
\* such tag; while it scans, no such tag is among the tokens it has passed.
C10_ExtractFirstPayloadInput ==
    /\ pc = "extract" => \A i \in PayloadInputs(doc) : pos < i
    /\ (op = "AwsSamlLogin" /\ pc = "done" /\ pos > 0)
           => IF PayloadInputs(doc) = {}
                 THEN err = NoPayloadError /\ saml = "" /\ pos = Len(doc) + 1
                 ELSE /\ pos = First(PayloadInputs(doc))
                      /\ data = AttrOf(doc[pos], "value")
                      /\ err # NoPayloadError

\* C10 witness: the payload input is the second token, after an input tag of
\* another name, and a later input tag carries another payload.
C10_Witness ==
    /\ op = "AwsSamlLogin"
    /\ pc = "done"
    /\ Len(doc) = 3
    /\ PayloadInputs(doc) = {2, 3}
    /\ doc[1].Data = "input"
    /\ AttrOf(doc[2], "value") # AttrOf(doc[3], "value")
    /\ data = "QUJD"
    /\ saml = "ABC"

\* C11: between two consecutive poll requests of one VerifyPush call
\* time.Sleep runs: a poll request that is not the first is issued only after
\* a sleep that followed the previous poll request.
C11_SleepBetweenPolls ==
    [][(PollAnswered /\ polls' = polls + 1) => slept]_vars

\* Authenticate, VerifyTotp or VerifyPush has returned.
AuthReturned == op \in {"Authenticate", "VerifyTotp", "VerifyPush"} /\ pc = "done"

\* C12: every OktaAuthResponse returned by Authenticate, VerifyTotp or
\* VerifyPush carries a session token if and only if its status is SUCCESS,
\* and a nil-error return of VerifyPush has status SUCCESS and a session token.
C12_SessionTokenIffSuccess ==
    AuthReturned
        => /\ ret.SessionToken # "" <=> ret.Status = "SUCCESS"
           /\ (op = "VerifyPush" /\ err = Nil)
                  => ret.Status = "SUCCESS" /\ ret.SessionToken # ""

\* The attribute values that are base64 texts.
Base64Texts == {"", "QUJD", "QQ=="}

SamlReturned == op = "AwsSamlLogin" /\ pc = "done"

\* The response of the GET was read in full.
SamlBodyRead == gets > 0 /\ ~lastGet.conn /\ lastGet.status < 300 /\ lastGet.readOk

\* One of the failures of AwsSamlLogin happened: an address that does not
\* parse, a GET that failed, a status >= 300, a body that could not be read,
\* a document without payload input, a payload that is not base64.
SamlFailure ==
    \/ ~args.url.valid \/ ~args.samlHref.valid
    \/ gets > 0 /\ lastGet.conn
    \/ gets > 0 /\ ~lastGet.conn /\ lastGet.status >= 300
    \/ gets > 0 /\ ~lastGet.conn /\ ~lastGet.readOk
    \/ SamlBodyRead /\ PayloadInputs(doc) = {}
    \/ SamlBodyRead /\ PayloadInputs(doc) # {}
           /\ AttrOf(doc[First(PayloadInputs(doc))], "value") \notin Base64Texts

\* C13: AwsSamlLogin returns a non-empty payload only with a nil error; on
\* every failure path it returns the empty string and a non-nil error,
\* otherwise a nil error; and after a status >= 300 (as after any failure of
\* the GET) the extractor is never run on the body.
C13_SamlFailuresReturnNothing ==
    /\ SamlReturned
           => /\ saml # "" => err = Nil
              /\ SamlFailure => saml = "" /\ err # Nil
              /\ ~SamlFailure => err = Nil
    /\ (op = "AwsSamlLogin" /\ gets > 0 /\ ~SamlBodyRead)
           => pc = "done" /\ pos = 0 /\ doc = <<>>

\* C13 witness: the GET is answered 302 and AwsSamlLogin has returned an error.
C13_Witness ==
    /\ SamlReturned
    /\ gets = 1
    /\ ~lastGet.conn
    /\ lastGet.status = 302
    /\ lastGet.readOk
    /\ saml = ""
    /\ err.msg = "Could not get SAML payload"

\* The parameters a raw query string holds, as url.ParseQuery reads it: the
\* pairs are separated by "&" and their values unescaped.
RECURSIVE ParseQuery(_)
ParseQuery(raw) ==
    IF raw = <<>> THEN <<>>
    ELSE LET kv == Head(raw)
             parsed == CASE kv[2] = "a&b" -> <<<<kv[1], "a">>, <<"b", "">>>>
                         [] kv[2] = "a%26b" -> <<<<kv[1], "a&b">>>>
                         [] OTHER -> <<kv>>
         IN  parsed \o ParseQuery(Tail(raw))

\* C14: the address of the GET is the SAML path resolved against the base
\* address (scheme and host of the base unless the reference names its own,
\* path of the SAML reference, or of the base when the reference has none),
\* and its query string holds exactly one parameter, onetimetoken, whose
\* value is the session token.
C14_SamlUrlHasOneTimeTokenOnly ==
    (op = "AwsSamlLogin" /\ gets > 0)
        => /\ getUrl.scheme =
                  (IF args.samlHref.scheme = "" THEN args.url.scheme
                   ELSE args.samlHref.scheme)
           /\ getUrl.host =
                  (IF args.samlHref.scheme = "" THEN args.url.host
                   ELSE args.samlHref.host)
           /\ getUrl.path = (IF args.samlHref.path = "" THEN args.url.path
                             ELSE args.samlHref.path)
           /\ ParseQuery(getUrl.query) = <<<<"onetimetoken", args.sessionToken>>>>

\* C14 witness: the SAML path carries a query of its own and the session
\* token holds a character that has to be escaped.
C14_Witness ==
    /\ op = "AwsSamlLogin"
    /\ gets = 1
    /\ args.samlHref.query # <<>>
    /\ args.sessionToken = "a&b"
    /\ getUrl.path = "/app/saml"
    /\ getUrl.query = <<<<"onetimetoken", "a%26b">>>>

\* No request of the call went out: makeRequest was not called, or http.Post
\* failed before sending anything.
NothingSent == posts = 0 \/ (posts = 1 /\ lastReq = ConnError)

\* C15: Authenticate and VerifyTotp issue at most one request per call, and
\* when the address they are given does not parse they issue none and return
\* YAK_STATUS_DATA_ERROR with a non-nil error.
C15_SingleRoundTrip ==
    op \in {"Authenticate", "VerifyTotp"}
        => /\ posts <= 1
           /\ gets = 0
           /\ pc = "done"
           /\ ~args.url.valid
                  => /\ NothingSent
                     /\ ret.YakStatusCode = YAK_STATUS_DATA_ERROR
                     /\ err # Nil

C18_NilErrorIffStatusOk ==
    AuthReturned => (err = Nil <=> ret.YakStatusCode = YAK_STATUS_OK)

\* The initiation request of VerifyPush succeeded and its response carried no
\* poll link.
InitiatedWithoutPollLink ==
    op = "VerifyPush" /\ ~initiation.failed /\ initiation.next = EmptyHref

\* C19: when the initiation request succeeds but its response carries no poll
\* link, VerifyPush polls the empty address, every poll request fails, no
\* sleep separates the polls, and VerifyPush returns exactly after the 6th
\* poll request, with a non-nil error.
C19_NoPollLinkFailsAfterSix ==
    InitiatedWithoutPollLink
        => /\ \A i \in 2..Len(sent) : sent[i].url = EmptyHref
           /\ failed = polls
           /\ sleeps = 0
           /\ pc \in {"poll", "done"}
           /\ polls <= 6
           /\ pc = "done" <=> polls = 6
           /\ pc = "done" => err # Nil /\ ret.YakStatusCode # YAK_STATUS_OK

\* C19 witness: VerifyPush has returned after six poll requests to the empty
\* address, the initiation response being JSON without a poll link.
C19_Witness ==
    /\ InitiatedWithoutPollLink
    /\ pc = "done"
    /\ Len(sent) = 7
    /\ sent[7].url = EmptyHref
    /\ sleeps = 0
    /\ err # Nil

\* C20: once makeRequest has returned, and once AwsSamlLogin has returned, no
\* response body obtained by the call is left open.
C20_NoBodyLeftOpen ==
    (op # "AwsSamlLogin" \/ pc = "done") => openBodies = 0

\* The latest poll request was answered MFA_CHALLENGE.
ChallengeAnswered == PollReceived /\ lastReq.body.json /\ lastReq.body.status = "MFA_CHALLENGE"

\* C17: VerifyPush returns in every execution in which the poll endpoint
\* answers MFA_CHALLENGE only finitely many times, and an answer of
\* MFA_CHALLENGE never makes it return, however many polls came before: after
\* such an answer it sleeps and polls again.
C17_ReturnsUnlessChallengedForever ==
    /\ <>[](~ChallengeAnswered) => <>[](pc \in {"idle", "done"})
    /\ [](ChallengeAnswered => pc \in {"sleep", "poll"})
    /\ [][pc = "sleep" => pc' = "poll"]_vars

\* C17 witness: the poll endpoint has answered MFA_CHALLENGE to every one of
\* MaxPolls poll requests and VerifyPush is about to poll again.
C17_Witness ==
    /\ ChallengeAnswered
    /\ challenges = MaxPolls
    /\ failed = 0
    /\ pc = "poll"
====
